---- MODULE Spec2Model ----
(***************************************************************************)
(* District-heating PLC simulation (src/plc): the thermal process of       *)
(* process_sim.c, and the threads of heating_controller.c that share it:   *)
(* the physics/display thread, one handler thread per Modbus client and    *)
(* the accept loop of main.                                                *)
(*                                                                         *)
(* Temperatures are C doubles in the source.  They are carried here in     *)
(* fixed point, TScale units per degree Celsius; setpoint is carried in    *)
(* tenths of a degree, the unit of its register.                           *)
(***************************************************************************)
EXTENDS Integers, Sequences, FiniteSets, TLC

(***************************************************************************)
(* Bounds of the model.                                                    *)
(***************************************************************************)
\* physics ticks explored after the initial state
MaxTicks == 2
\* frames a client may deliver, over all connections
MaxRequests == 2

\* packets the gateway receives on its connection
MaxPackets == 2
\* connections accepted, over the whole run
MaxConns == 1

(***************************************************************************)
(* Program constants.                                                      *)
(***************************************************************************)
TScale == 1000
TEMP_SETPOINT_DEFAULT == 20
TEMP_WARNING == 10
TEMP_CRITICAL == 5
TEMP_FROZEN == 0
TEMP_BURST == -2
TEMP_INITIAL_INSIDE == 20
TEMP_OUTSIDE_DEFAULT == -15
TEMP_SUPPLY_DEFAULT == 90
TEMP_CLAMP_LOW == -30
TEMP_CLAMP_HIGH == 50
HEATER_POWER_MAX == 80
THERMAL_MASS == 30
VALVE_SLEW_RATE == 5
DEADBAND == 2
VALVE_MAX == 100
SETPOINT_MAX == 400
NB_REGISTERS == 10
START_REGISTERS == 100
MAX_CONNECTIONS == 64
MODBUS_TCP_MAX_ADU_LENGTH == 260
MBAP_HEADER_SIZE == 7
TRIGGER_TID == 57005
UINT16 == 65536

STATUS_OK == 0
STATUS_WARNING == 1
STATUS_CRITICAL == 2
STATUS_FROZEN == 3
STATUS_BURST == 4
MODE_MANUAL == 0
MODE_AUTO == 1

\* C integer division truncates toward zero
TruncDiv(a, b) == IF a >= 0 THEN a \div b ELSE -((-a) \div b)

Clamp(x, lo, hi) == IF x < lo THEN lo ELSE IF x > hi THEN hi ELSE x

(***************************************************************************)
(* process_sim.c                                                           *)
(***************************************************************************)
process_init ==
    [ inside_temp          |-> TEMP_INITIAL_INSIDE * TScale,
      valve_cmd            |-> 50,
      setpoint             |-> TEMP_SETPOINT_DEFAULT * 10,
      mode                 |-> MODE_AUTO,
      outside_temp         |-> TEMP_OUTSIDE_DEFAULT * TScale,
      status               |-> STATUS_OK,
      valve_actual         |-> 50,
      supply_temp          |-> TEMP_SUPPLY_DEFAULT * TScale,
      runtime              |-> 0,
      heater_power         |-> 0,
      controller_running   |-> TRUE,
      time_without_control |-> 0,
      pipes_burst          |-> FALSE ]

\* the mutant of ValveStep: the valve moves whether the controller runs or not
ValveStep_alwaysSlews(s) ==
    LET valve_diff == s.valve_cmd - s.valve_actual
        max_change == VALVE_SLEW_RATE
    IN  IF valve_diff > max_change THEN s.valve_actual + max_change
        ELSE IF valve_diff < -max_change THEN s.valve_actual - max_change
        ELSE s.valve_cmd

\* the mutant of ValveStep: the valve goes to its command at once
ValveStep_jumps(s) ==
    IF s.controller_running THEN s.valve_cmd ELSE s.valve_actual

\* valve dynamics: max_change = (int)(VALVE_SLEW_RATE * dt), dt = 1 s
ValveStep(s) ==
    IF s.controller_running
    THEN LET valve_diff == s.valve_cmd - s.valve_actual
             max_change == VALVE_SLEW_RATE
         IN  IF valve_diff > max_change THEN s.valve_actual + max_change
             ELSE IF valve_diff < -max_change THEN s.valve_actual - max_change
             ELSE s.valve_cmd
    ELSE s.valve_actual

\* the mutant of ThermalStep: the temperature is not clamped
ThermalStep_unclamped(inside, outside, valve) ==
    LET heat_loss == TruncDiv((inside - outside) * 15, 1000)
        heat_gain == TruncDiv(valve * HEATER_POWER_MAX * TScale, 100 * THERMAL_MASS)
    IN  inside + heat_gain - heat_loss

\* inside_temp += (heat_gain - heat_loss) * dt, then the clamp
\*   heat_loss = (inside - outside) * 0.015
\*   heat_gain = valve/100 * HEATER_POWER_MAX / THERMAL_MASS
ThermalStep(inside, outside, valve) ==
    LET heat_loss == TruncDiv((inside - outside) * 15, 1000)
        heat_gain == TruncDiv(valve * HEATER_POWER_MAX * TScale, 100 * THERMAL_MASS)
    IN  Clamp(inside + heat_gain - heat_loss,
              TEMP_CLAMP_LOW * TScale, TEMP_CLAMP_HIGH * TScale)

\* the mutant of StatusStep: BURST is set and pipes_burst is not
StatusStep_burstWithoutFlag(temp, status, burst) ==
    IF temp <= TEMP_FROZEN * TScale
    THEN IF status # STATUS_BURST
         THEN IF temp <= TEMP_BURST * TScale
              THEN <<STATUS_BURST, burst>>
              ELSE <<STATUS_FROZEN, burst>>
         ELSE <<status, burst>>
    ELSE IF temp <= TEMP_CRITICAL * TScale THEN <<STATUS_CRITICAL, burst>>
    ELSE IF temp <= TEMP_WARNING * TScale THEN <<STATUS_WARNING, burst>>
    ELSE <<STATUS_OK, burst>>

\* the mutant of StatusStep: the CRITICAL rung is missing
StatusStep_skipsCritical(temp, status, burst) ==
    IF temp <= TEMP_FROZEN * TScale
    THEN IF status # STATUS_BURST
         THEN IF temp <= TEMP_BURST * TScale
              THEN <<STATUS_BURST, TRUE>>
              ELSE <<STATUS_FROZEN, burst>>
         ELSE <<status, burst>>
    ELSE IF temp <= TEMP_WARNING * TScale THEN <<STATUS_WARNING, burst>>
    ELSE <<STATUS_OK, burst>>

\* the status ladder at the end of process_update_physics; yields
\* <<status, pipes_burst>>
StatusStep(temp, status, burst) ==
    IF temp <= TEMP_FROZEN * TScale
    THEN IF status # STATUS_BURST
         THEN IF temp <= TEMP_BURST * TScale
              THEN <<STATUS_BURST, TRUE>>
              ELSE <<STATUS_FROZEN, burst>>
         ELSE <<status, burst>>
    ELSE IF temp <= TEMP_CRITICAL * TScale THEN <<STATUS_CRITICAL, burst>>
    ELSE IF temp <= TEMP_WARNING * TScale THEN <<STATUS_WARNING, burst>>
    ELSE <<STATUS_OK, burst>>

\* the mutant of process_update_physics: the burst check is dropped
process_update_physics_noBurstCheck(s) ==
    LET valve == Clamp(ValveStep(s), 0, 100)
        temp  == ThermalStep(s.inside_temp, s.outside_temp, valve)
        st    == StatusStep(temp, s.status, s.pipes_burst)
    IN  [s EXCEPT !.runtime = s.runtime + 1,
                  !.time_without_control =
                      IF s.controller_running THEN @ ELSE @ + 1,
                  !.valve_actual = valve,
                  !.inside_temp = temp,
                  !.heater_power = valve * HEATER_POWER_MAX,
                  !.status = st[1],
                  !.pipes_burst = st[2]]

\* the body of process_update_physics, between lock and unlock; the uint32
\* counters stay far below their wrap within MaxTicks
process_update_physics(s) ==
    IF s.pipes_burst THEN s
    ELSE
    LET valve == Clamp(ValveStep(s), 0, 100)
        temp  == ThermalStep(s.inside_temp, s.outside_temp, valve)
        st    == StatusStep(temp, s.status, s.pipes_burst)
    IN  [s EXCEPT !.runtime = s.runtime + 1,
                  !.time_without_control =
                      IF s.controller_running THEN @ ELSE @ + 1,
                  !.valve_actual = valve,
                  !.inside_temp = temp,
                  !.heater_power = valve * HEATER_POWER_MAX,
                  !.status = st[1],
                  !.pipes_burst = st[2]]

\* the mutant of ControlLaw: bang-bang, without the proportional band
ControlLaw_bangBang(setpoint, inside) ==
    IF setpoint * (TScale \div 10) - inside > 0 THEN 100 ELSE 0

\* the control law: error = setpoint - inside_temp, in TScale units
ControlLaw(setpoint, inside) ==
    LET error == setpoint * (TScale \div 10) - inside
    IN  IF error > DEADBAND * TScale THEN 100
        ELSE IF error < -(DEADBAND * TScale) THEN 0
        ELSE Clamp(TruncDiv(50 * DEADBAND * TScale + 50 * error, DEADBAND * TScale),
                   0, 100)

\* the mutant of process_run_controller: the mode is not looked at
process_run_controller_anyMode(s) ==
    IF ~s.controller_running \/ s.pipes_burst THEN s
    ELSE [s EXCEPT !.valve_cmd = ControlLaw(s.setpoint, s.inside_temp)]

\* the body of process_run_controller
process_run_controller(s) ==
    IF ~s.controller_running \/ s.pipes_burst THEN s
    ELSE IF s.mode # MODE_AUTO THEN s
    ELSE [s EXCEPT !.valve_cmd = ControlLaw(s.setpoint, s.inside_temp)]

\* the mutant of process_controller_crash: the controller is restarted
process_controller_crash_restart(s) ==
    [s EXCEPT !.controller_running = TRUE,
              !.time_without_control = 0,
              !.valve_cmd = 0]

\* the body of process_controller_crash
process_controller_crash(s) ==
    [s EXCEPT !.controller_running = FALSE,
              !.time_without_control = 0,
              !.valve_cmd = 0]

\* (uint16_t)((int16_t)(t * 10.0) & 0xFFFF)
TempReg(t) == TruncDiv(t * 10, TScale) % UINT16

\* (uint16_t)(heater_power * 10.0); the double product falls just short of
\* the integer for five valve positions
HeaterReg(power) ==
    LET valve == power \div HEATER_POWER_MAX
    IN  (valve * 8 - (IF valve \in {47, 57, 59, 83, 94} THEN 1 ELSE 0)) % UINT16

\* the body of process_to_registers; registers are indexed 0 .. NB_REGISTERS-1
process_to_registers(s, registers) ==
    [i \in 0..(NB_REGISTERS - 1) |->
        CASE i = 0 -> TempReg(s.inside_temp)
          [] i = 1 -> s.valve_cmd % UINT16
          [] i = 2 -> s.setpoint % UINT16
          [] i = 3 -> s.mode % UINT16
          [] i = 4 -> TempReg(s.outside_temp)
          [] i = 5 -> s.status % UINT16
          [] i = 6 -> s.valve_actual % UINT16
          [] i = 7 -> TempReg(s.supply_temp)
          [] i = 8 -> s.runtime % UINT16
          [] i = 9 -> HeaterReg(s.heater_power)
          [] OTHER -> registers[i]]

\* the mutant of process_from_registers: no register is checked
process_from_registers_unchecked(s, registers) ==
    [s EXCEPT !.valve_cmd = registers[1],
              !.setpoint  = registers[2],
              !.mode      = registers[3]]

\* the mutant of process_from_registers: setpoint and mode are not checked
process_from_registers_noSetpointModeCheck(s, registers) ==
    [s EXCEPT !.valve_cmd = IF registers[1] <= VALVE_MAX THEN registers[1] ELSE @,
              !.setpoint  = registers[2],
              !.mode      = registers[3]]

\* the mutant of process_from_registers: the valve command is not checked
process_from_registers_noValveCheck(s, registers) ==
    [s EXCEPT !.valve_cmd = registers[1],
              !.setpoint  = IF registers[2] <= SETPOINT_MAX THEN registers[2] ELSE @,
              !.mode      = IF registers[3] <= 1 THEN registers[3] ELSE @]

\* the mutant of process_from_registers: the status register is taken too
process_from_registers_takesStatus(s, registers) ==
    [s EXCEPT !.valve_cmd = IF registers[1] <= VALVE_MAX THEN registers[1] ELSE @,
              !.setpoint  = IF registers[2] <= SETPOINT_MAX THEN registers[2] ELSE @,
              !.mode      = IF registers[3] <= 1 THEN registers[3] ELSE @,
              !.status    = registers[5]]

\* the body of process_from_registers
process_from_registers(s, registers) ==
    [s EXCEPT !.valve_cmd = IF registers[1] <= VALVE_MAX THEN registers[1] ELSE @,
              !.setpoint  = IF registers[2] <= SETPOINT_MAX THEN registers[2] ELSE @,
              !.mode      = IF registers[3] <= 1 THEN registers[3] ELSE @]


(***************************************************************************)
(* The Modbus frames a client delivers.  declared is the MBAP length field *)
(* plus the six bytes before it covers, actual the bytes really delivered. *)
(* For function 0x10 addr/nb/bc/vals are the address, quantity, byte count *)
(* and register values; for 0x17 addr/nb are the read range and waddr/wnb  *)
(* the write range.                                                        *)
(***************************************************************************)
FC_READ == 3
FC_WRITE == 16
FC_WRITE_READ == 23
\* the exception codes of a reply
EXC_ILLEGAL_FUNCTION == "illegal-function"
EXC_ILLEGAL_ADDRESS == "illegal-address"
\* register-wide words of the query buffer that are tracked, from byte 13 on
QuerySlots == 4
\* the mark of a word of the query buffer that was never written
Uninit == -1

Frame(tid, proto, fc, addr, nb, bc, vals, waddr, wnb, pdu, extra) ==
    [ tid |-> tid, proto |-> proto, unit |-> 1, fc |-> fc,
      addr |-> addr, nb |-> nb, bc |-> bc, vals |-> vals,
      waddr |-> waddr, wnb |-> wnb,
      declared |-> MBAP_HEADER_SIZE + pdu,
      actual |-> MBAP_HEADER_SIZE + pdu + extra ]

ReadReq(tid, addr, nb) == Frame(tid, 0, FC_READ, addr, nb, 0, <<>>, 0, 0, 5, 0)
WriteReq(tid, addr, nb, bc, vals) ==
    Frame(tid, 0, FC_WRITE, addr, nb, bc, vals, 0, 0, 6 + 2 * Len(vals), 0)
WriteReadReq(tid, addr, nb, waddr, wnb, vals) ==
    Frame(tid, 0, FC_WRITE_READ, addr, nb, 2 * Len(vals), vals, waddr, wnb,
          10 + 2 * Len(vals), 0)

\* register values a client writes: in and out of the domains of the
\* valve command (0..100), the setpoint (0..400) and the mode (0..1)
Vals == {0, 30, 150}

\* a well-formed read, writes of the valve command and of the mode, and the
\* frame of the transaction-id trigger; base is the first register address
CoreFrames(base) ==
    {ReadReq(1, base, NB_REGISTERS),
     ReadReq(TRIGGER_TID, base, 1),
     WriteReq(1, base + 1, 1, 2, <<30>>),
     WriteReq(1, base + 3, 1, 2, <<0>>)}

\* frames that break the framing: protocol id not 0; 60 bytes declared and
\* 12 delivered before the timeout; 60 bytes declared and 600 delivered;
\* more declared than an ADU may hold
BadFrames(base) ==
    {[ReadReq(1, base, 1) EXCEPT !.proto = 1],
     [ReadReq(1, base, 1) EXCEPT !.declared = MBAP_HEADER_SIZE + 60],
     [ReadReq(1, base, NB_REGISTERS) EXCEPT
          !.declared = MBAP_HEADER_SIZE + 60, !.actual = MBAP_HEADER_SIZE + 600],
     [ReadReq(1, base, 1) EXCEPT !.declared = MODBUS_TCP_MAX_ADU_LENGTH + 1,
                                 !.actual = MODBUS_TCP_MAX_ADU_LENGTH + 1]}

\* requests whose address range or byte count is wrong
RangeFrames(base) ==
    {ReadReq(1, base + 1, NB_REGISTERS),
     WriteReq(1, base + NB_REGISTERS, 1, 2, <<30>>),
     \* quantity 3, byte count 2: one value supplied
     WriteReq(1, base + 1, 3, 2, <<30>>),
     WriteReq(1, base + 1, 3, 6, <<0, 150, 1>>),
     WriteReadReq(1, base, 1, base + 1, 1, <<30>>),
     WriteReadReq(1, base, 1, base + NB_REGISTERS, 1, <<30>>),
     WriteReadReq(1, base, 1, base \div 2, 1, <<30>>)}

\* writes of values outside the domains of the valve command (0..100), the
\* setpoint (0..400) and the mode (0..1), alone and beside in-domain values
DomainFrames(base) ==
    {WriteReq(1, base + 1, 1, 2, <<150>>),
     WriteReq(1, base + 2, 1, 2, <<401>>),
     WriteReq(1, base + 3, 1, 2, <<65535>>),
     WriteReq(1, base + 1, 3, 6, <<150, 210, 0>>)}

\* writes to the registers a client may only read: the inside temperature
\* (0), outside temperature, status and valve position (4..6), supply
\* temperature, runtime and heater power (7..9)
ReadOnlyFrames(base) ==
    {WriteReq(1, base, 1, 2, <<150>>),
     WriteReq(1, base + 4, 3, 6, <<0, STATUS_BURST, 30>>),
     WriteReq(1, base + 7, 3, 6, <<0, 30, 150>>)}

NoFrame == [fc |-> 0]
NoReply == [kind |-> "none"]
OkReply(f) == [kind |-> "ok", tid |-> f.tid, unit |-> f.unit, fc |-> f.fc]
ExcReply(f, code) ==
    [kind |-> "exception", tid |-> f.tid, unit |-> f.unit, fc |-> f.fc, code |-> code]


(***************************************************************************)
(* libmodbus 3.1.2, as heating_controller.c calls it.  The library is not  *)
(* part of the sources modelled here; its behaviour is taken from what the *)
(* call site and the tools under src/cve_tools state about it.             *)
(***************************************************************************)

\* frames modbus_receive refuses with -1: protocol id, fewer bytes delivered
\* than declared (the read times out), more declared than an ADU holds
FramingError(f) ==
    \/ f.proto # 0
    \/ f.actual < f.declared
    \/ f.declared > MODBUS_TCP_MAX_ADU_LENGTH

\* a frame whose declared length is not the number of bytes delivered
LengthMismatch(f) == f.actual # f.declared

\* bytes modbus_receive stores into the caller's query buffer: the declared
\* length does not bound the bytes taken from the socket
BytesWritten(f) ==
    IF f.proto # 0 \/ f.declared > MODBUS_TCP_MAX_ADU_LENGTH THEN MBAP_HEADER_SIZE
    ELSE f.actual

\* the tracked words of the query buffer (bytes 13,14 / 15,16 / ...) after
\* the bytes of frame f were stored into it
QueryAfter(q, f) ==
    IF f.proto # 0 \/ f.declared > MODBUS_TCP_MAX_ADU_LENGTH THEN q
    ELSE [j \in 1..QuerySlots |->
            CASE f.fc = FC_WRITE /\ j <= Len(f.vals) -> f.vals[j]
              [] f.fc = FC_WRITE_READ /\ j = 1 ->
                     (f.waddr % 256) * 256 + (f.wnb \div 256)
              [] f.fc = FC_WRITE_READ /\ j = 2 -> (f.wnb % 256) * 256 + f.bc
              [] f.fc = FC_WRITE_READ /\ j > 2 /\ j - 2 <= Len(f.vals) -> f.vals[j - 2]
              [] OTHER -> q[j]]

\* function 0x03
ReplyRead(f, regs, start) ==
    LET mapping_address == f.addr - start
    IN  IF mapping_address < 0 \/ mapping_address + f.nb > NB_REGISTERS
        THEN [reply |-> ExcReply(f, EXC_ILLEGAL_ADDRESS), regs |-> regs, oob |-> FALSE]
        ELSE [reply |-> OkReply(f), regs |-> regs, oob |-> FALSE]

\* function 0x10: nb registers are taken from the query buffer, whatever the
\* byte count of the request says
ReplyWrite(f, regs, q, start) ==
    LET mapping_address == f.addr - start
    IN  IF mapping_address < 0 \/ mapping_address + f.nb > NB_REGISTERS
        THEN [reply |-> ExcReply(f, EXC_ILLEGAL_ADDRESS), regs |-> regs, oob |-> FALSE]
        ELSE [reply |-> OkReply(f),
              regs  |-> [i \in DOMAIN regs |->
                           IF i >= mapping_address /\ i < mapping_address + f.nb
                           THEN q[i - mapping_address + 1] ELSE regs[i]],
              oob   |-> FALSE]

\* function 0x17: the bounds check tests mapping_address twice and never
\* tests mapping_address_write < 0; the write is done before the read
ReplyWriteRead(f, regs, q, start) ==
    LET mapping_address == f.addr - start
        mapping_address_write == f.waddr - start
    IN  IF \/ mapping_address < 0
                \/ mapping_address + f.nb > NB_REGISTERS
                \/ mapping_address < 0
                \/ mapping_address_write + f.wnb > NB_REGISTERS
        THEN [reply |-> ExcReply(f, EXC_ILLEGAL_ADDRESS), regs |-> regs, oob |-> FALSE]
        ELSE [reply |-> OkReply(f),
              regs  |-> [i \in DOMAIN regs |->
                           IF i >= mapping_address_write
                              /\ i < mapping_address_write + f.wnb
                           THEN q[i - mapping_address_write + 3] ELSE regs[i]],
              \* tab_registers[i] with i < 0 lies before the table
              oob   |-> mapping_address_write < 0]

\* modbus_reply: the new register table, the reply sent, and whether a
\* register slot outside the table was accessed
modbus_reply(f, regs, q, start) ==
    CASE f.fc = FC_READ -> ReplyRead(f, regs, start)
      [] f.fc = FC_WRITE -> ReplyWrite(f, regs, q, start)
      [] f.fc = FC_WRITE_READ -> ReplyWriteRead(f, regs, q, start)
      [] OTHER -> [reply |-> ExcReply(f, EXC_ILLEGAL_FUNCTION), regs |-> regs,
                   oob |-> FALSE]

\* the words of the query buffer modbus_reply takes register values from
SlotsRead(f) ==
    CASE f.fc = FC_WRITE -> 1..f.nb
      [] f.fc = FC_WRITE_READ -> 3..(2 + f.wnb)
      [] OTHER -> {}

\* a word never written holds whatever the thread's stack held: any value
Fill(q, f) ==
    IF \E j \in SlotsRead(f) : q[j] = Uninit
    THEN {[j \in 1..QuerySlots |->
             IF q[j] = Uninit /\ j \in SlotsRead(f) THEN u[j] ELSE q[j]]
            : u \in [1..QuerySlots -> Vals]}
    ELSE {q}


(***************************************************************************)
(* gateway_backdoor.c: the Linux gateway in front of the PLC.  Of a packet *)
(* the model keeps its length, the header bytes data[2..5] and whether the *)
(* bytes at BACKDOOR_TRIGGER_OFFSET are the trigger sequence.              *)
(***************************************************************************)
BACKDOOR_TRIGGER_LEN == 8
BACKDOOR_TRIGGER_OFFSET == 12
MAX_PACKET == 4096

PacketLens == {8, 12, 20, 262}
HeaderBytes == {0, 1, 6, 14}

\* what one recv can deliver; only a packet that reaches past the trigger
\* offset can carry the trigger
Packets ==
    {p \in [len : PacketLens, data : [2..5 -> HeaderBytes], trigger : BOOLEAN] :
        /\ p.len <= MAX_PACKET
        /\ p.trigger => p.len >= BACKDOOR_TRIGGER_OFFSET + BACKDOOR_TRIGGER_LEN}

\* (hi << 8) | lo, kept in a uint16_t
Uint16Of(hi, lo) == (hi * 256 + lo) % 65536

\* the mutant of validate_modbus: the declared length is not compared
validate_modbus_noLengthCheck(data, len) ==
    IF len < 12 THEN 0
    ELSE IF Uint16Of(data[2], data[3]) # 0 THEN 0
    ELSE 1

validate_modbus(data, len) ==
    IF len < 12 THEN 0
    ELSE IF Uint16Of(data[2], data[3]) # 0 THEN 0
    ELSE IF Uint16Of(data[4], data[5]) + 6 # len THEN 0
    ELSE 1

\* recv stores the packet at the start of buffer; the bytes behind it keep
\* what they held
recv(buffer, p) ==
    [data |-> p.data,
     trigger |-> IF p.len >= BACKDOOR_TRIGGER_OFFSET + BACKDOOR_TRIGGER_LEN
                 THEN p.trigger ELSE buffer.trigger]

\* the gateway's main before its first accept
gateway_main ==
    [pc |-> "accept", g_running |-> TRUE, g_validation_state |-> 0,
     buffer |-> [data |-> [i \in 2..5 |-> 0], trigger |-> FALSE],
     received |-> 0, forwarded |-> FALSE, replied |-> FALSE,
     bypassed |-> 0, npackets |-> 0]


(***************************************************************************)
(* heating_controller.c: the state shared by the threads                   *)
(***************************************************************************)
VARIABLES
    g_process,        \* process_state_t g_process (without its mutex)
    mutex,            \* g_process.mutex: the set of threads holding it
    tab_registers,    \* g_mb_mapping->tab_registers
    g_mb_mapping,     \* "null", "allocated" or "freed"
    start_registers,  \* first register address of the mapping
    g_running,
    g_client_count,
    g_client_mutex,   \* the set of threads holding it
    mpc,              \* main: where it is
    server_socket,    \* "none", "listening" or "closed"
    client_id,        \* main's client_id: connections accepted so far
    tpc,              \* process_thread: where it is
    hpc,              \* client_thread of each connection: where it is
    hreq,             \* the frame the handler received last
    hreply,           \* the reply sent to that frame
    query,            \* tracked words of the handler's query buffer
    written,          \* bytes the last modbus_receive stored into query
    sock,             \* the connection's socket: "none", "open" or "closed"
    oob,              \* a store outside a buffer or the table has happened
    proc,             \* "up", or "crashed" once the process has died
    nreq,             \* frames delivered so far
    nticks,           \* iterations of process_thread so far
    frames,           \* the frames clients send in this run
    gateway           \* gateway_backdoor.c: the gateway process, "none" fields while not started

vars == <<g_process, mutex, tab_registers, g_mb_mapping, start_registers, g_running,
          g_client_count, g_client_mutex, mpc, server_socket, client_id, tpc, hpc,
          hreq, hreply, query, written, sock, oob, proc, nreq, nticks, frames,
          gateway>>

shared == <<g_process, tab_registers>>
mainVars == <<mpc, server_socket, client_id>>
handlerVars == <<hpc, hreq, hreply, query, written, sock, nreq>>

Handlers == 1..MaxConns
TickThread == 0
MainThread == -1

\* pthread_mutex_lock returns once no thread holds the mutex
pthread_mutex_lock(m, t) == {t}

\* the mutant of pthread_mutex_unlock: the mutex stays held
pthread_mutex_unlock_missing(m, t) == m

pthread_mutex_unlock(m, t) == m \ {t}

ZeroRegisters == [i \in 0..(NB_REGISTERS - 1) |-> 0]

InitWith(start, state, fs) ==
    /\ g_process = state
    /\ mutex = {}
    /\ tab_registers = ZeroRegisters
    /\ g_mb_mapping = "null"
    /\ start_registers = start
    /\ g_running = TRUE
    /\ g_client_count = 0
    /\ g_client_mutex = {}
    /\ mpc = "new_ctx"
    /\ server_socket = "none"
    /\ client_id = 0
    /\ tpc = "none"
    /\ hpc = [h \in Handlers |-> "none"]
    /\ hreq = [h \in Handlers |-> NoFrame]
    /\ hreply = [h \in Handlers |-> NoReply]
    /\ query = [h \in Handlers |-> [j \in 1..QuerySlots |-> Uninit]]
    /\ written = [h \in Handlers |-> 0]
    /\ sock = [h \in Handlers |-> "none"]
    /\ oob = FALSE
    /\ proc = "up"
    /\ nreq = 0
    /\ nticks = 0
    /\ frames = fs
    /\ gateway = gateway_main

\* main up to the accept loop: process_init has run
Init == InitWith(0, process_init, CoreFrames(0))

(***************************************************************************)
(* process_thread                                                          *)
(***************************************************************************)
\* the physics tick is explored MaxTicks times
TickAllowed == nticks < MaxTicks

\* while (g_running) { process_update_physics(&g_process): lock
TickPhysicsLock ==
    /\ proc = "up"
    /\ tpc = "loop"
    /\ IF g_running
       THEN /\ TickAllowed
            /\ mutex = {}
            /\ mutex' = pthread_mutex_lock(mutex, TickThread)
            /\ tpc' = "phys_cs"
       ELSE /\ mutex' = mutex
            /\ tpc' = "done"
    /\ UNCHANGED <<shared, g_mb_mapping, start_registers, frames, gateway, g_running,
                   g_client_count, g_client_mutex, mainVars, handlerVars, oob, proc, nticks>>

\* the mutant of TickPhysics: the update takes an input outside ProcessState,
\* the number of connections accepted
TickPhysics_hiddenInput ==
    /\ proc = "up"
    /\ tpc = "phys_cs"
    /\ g_process' = IF client_id > 0
                    THEN process_update_physics(process_update_physics(g_process))
                    ELSE process_update_physics(g_process)
    /\ mutex' = pthread_mutex_unlock(mutex, TickThread)
    /\ tpc' = "ctl"
    /\ nticks' = nticks + 1
    /\ UNCHANGED <<tab_registers, g_mb_mapping, start_registers, frames, gateway, g_running,
                   g_client_count, g_client_mutex, mainVars, handlerVars, oob, proc>>

\* process_update_physics(&g_process): body and unlock
TickPhysics ==
    /\ proc = "up"
    /\ tpc = "phys_cs"
    /\ g_process' = process_update_physics(g_process)
    /\ mutex' = pthread_mutex_unlock(mutex, TickThread)
    /\ tpc' = "ctl"
    /\ nticks' = nticks + 1
    /\ UNCHANGED <<tab_registers, g_mb_mapping, start_registers, frames, gateway, g_running,
                   g_client_count, g_client_mutex, mainVars, handlerVars, oob, proc>>

\* if (g_process.controller_running) process_run_controller(&g_process);
TickControllerLock ==
    /\ proc = "up"
    /\ tpc = "ctl"
    /\ IF g_process.controller_running
       THEN /\ mutex = {}
            /\ mutex' = pthread_mutex_lock(mutex, TickThread)
            /\ tpc' = "ctl_cs"
       ELSE /\ mutex' = mutex
            /\ tpc' = "regs_lock"
    /\ UNCHANGED <<shared, g_mb_mapping, start_registers, frames, gateway, g_running,
                   g_client_count, g_client_mutex, mainVars, handlerVars, oob, proc, nticks>>

TickController ==
    /\ proc = "up"
    /\ tpc = "ctl_cs"
    /\ g_process' = process_run_controller(g_process)
    /\ mutex' = pthread_mutex_unlock(mutex, TickThread)
    /\ tpc' = "regs_lock"
    /\ UNCHANGED <<tab_registers, g_mb_mapping, start_registers, frames, gateway, g_running,
                   g_client_count, g_client_mutex, mainVars, handlerVars, oob, proc, nticks>>

TickRegistersLock ==
    /\ proc = "up"
    /\ tpc = "regs_lock"
    /\ mutex = {}
    /\ mutex' = pthread_mutex_lock(mutex, TickThread)
    /\ tpc' = "regs_cs"
    /\ UNCHANGED <<shared, g_mb_mapping, start_registers, frames, gateway, g_running,
                   g_client_count, g_client_mutex, mainVars, handlerVars, oob, proc, nticks>>

TickRegisters ==
    /\ proc = "up"
    /\ tpc = "regs_cs"
    /\ tab_registers' = process_to_registers(g_process, tab_registers)
    /\ mutex' = pthread_mutex_unlock(mutex, TickThread)
    /\ tpc' = "disp_lock"
    /\ UNCHANGED <<g_process, g_mb_mapping, start_registers, frames, gateway, g_running,
                   g_client_count, g_client_mutex, mainVars, handlerVars, oob, proc, nticks>>

TickDisplayLock ==
    /\ proc = "up"
    /\ tpc = "disp_lock"
    /\ g_client_mutex = {}
    /\ g_client_mutex' = pthread_mutex_lock(g_client_mutex, TickThread)
    /\ tpc' = "disp_cs"
    /\ UNCHANGED <<shared, mutex, g_mb_mapping, start_registers, frames, gateway, g_running,
                   g_client_count, mainVars, handlerVars, oob, proc, nticks>>

\* the mutant of TickDisplay: the display is rendered and the thread sleeps
\* with g_client_mutex still held
TickDisplay_sleepsHoldingLock ==
    /\ proc = "up"
    /\ tpc = "disp_cs"
    /\ g_client_mutex' = g_client_mutex
    /\ tpc' = "loop"
    /\ UNCHANGED <<shared, mutex, g_mb_mapping, start_registers, frames, gateway, g_running,
                   g_client_count, mainVars, handlerVars, oob, proc, nticks>>

\* int clients = g_client_count; unlock; render; usleep
TickDisplay ==
    /\ proc = "up"
    /\ tpc = "disp_cs"
    /\ g_client_mutex' = pthread_mutex_unlock(g_client_mutex, TickThread)
    /\ tpc' = "loop"
    /\ UNCHANGED <<shared, mutex, g_mb_mapping, start_registers, frames, gateway, g_running,
                   g_client_count, mainVars, handlerVars, oob, proc, nticks>>

(***************************************************************************)
(* client_thread, one per accepted connection                              *)
(***************************************************************************)
tickVars == <<tpc, nticks>>
config == <<g_mb_mapping, start_registers, frames, gateway>>

\* where the while loop of client_thread goes next:
\* while (g_running && g_process.controller_running)
LoopTest == IF g_running /\ g_process.controller_running THEN "recv" ELSE "close"

\* what a finished thread leaves of its locals
HDone(h) ==
    /\ hreq' = [hreq EXCEPT ![h] = NoFrame]
    /\ hreply' = [hreply EXCEPT ![h] = NoReply]
    /\ query' = [query EXCEPT ![h] = [j \in 1..QuerySlots |-> Uninit]]
    /\ written' = [written EXCEPT ![h] = 0]

\* modbus_new_tcp(NULL, 0) for the connection; on failure the socket is
\* closed and the thread returns; else the first test of the while loop
HNewCtx(h) ==
    /\ proc = "up"
    /\ hpc[h] = "start"
    /\ \/ /\ hpc' = [hpc EXCEPT ![h] = LoopTest]
          /\ sock' = sock
       \/ /\ hpc' = [hpc EXCEPT ![h] = "done"]
          /\ sock' = [sock EXCEPT ![h] = "closed"]
    /\ UNCHANGED <<shared, mutex, config, g_running, g_client_count, g_client_mutex,
                   mainVars, tickVars, hreq, hreply, query, written, nreq, oob, proc>>

\* the mutant of AfterReceive: every transaction id is the trigger
AfterReceive_anyTid(f) == "trigger"

\* after rc > 0: the transaction id check of TRIGGER_PATTERN_VULN
AfterReceive(f) == IF f.tid = TRIGGER_TID THEN "trigger" ELSE "reply"

\* rc = modbus_receive(ctx, query), a frame arriving
HReceive(h) ==
    /\ proc = "up"
    /\ hpc[h] = "recv"
    /\ nreq < MaxRequests
    /\ \E f \in frames :
          /\ nreq' = nreq + 1
          /\ hreq' = [hreq EXCEPT ![h] = f]
          /\ hreply' = [hreply EXCEPT ![h] = NoReply]
          /\ written' = [written EXCEPT ![h] = BytesWritten(f)]
          /\ query' = [query EXCEPT ![h] = QueryAfter(@, f)]
          /\ IF FramingError(f)
             THEN /\ hpc' = [hpc EXCEPT ![h] = "close"]
                  /\ UNCHANGED <<oob, proc>>
             ELSE IF BytesWritten(f) > MODBUS_TCP_MAX_ADU_LENGTH
             THEN \* the store ran past the end of query
                  /\ oob' = TRUE
                  /\ \/ /\ proc' = "crashed"
                        /\ hpc' = hpc
                     \/ /\ proc' = proc
                        /\ hpc' = [hpc EXCEPT ![h] = AfterReceive(f)]
             ELSE /\ hpc' = [hpc EXCEPT ![h] = AfterReceive(f)]
                  /\ UNCHANGED <<oob, proc>>
    /\ UNCHANGED <<shared, mutex, config, g_running, g_client_count, g_client_mutex,
                   mainVars, tickVars, sock>>

\* rc = modbus_receive(ctx, query) = -1: the peer closed, or the read failed
HReceiveClosed(h) ==
    /\ proc = "up"
    /\ hpc[h] = "recv"
    /\ hpc' = [hpc EXCEPT ![h] = "close"]
    /\ UNCHANGED <<shared, mutex, config, g_running, g_client_count, g_client_mutex,
                   mainVars, tickVars, hreq, hreply, query, written, sock, nreq, oob, proc>>

\* g_process.controller_running = 0;
HTrigger(h) ==
    /\ proc = "up"
    /\ hpc[h] = "trigger"
    /\ g_process' = [g_process EXCEPT !.controller_running = FALSE]
    /\ hpc' = [hpc EXCEPT ![h] = "crash1_lock"]
    /\ UNCHANGED <<tab_registers, mutex, config, g_running, g_client_count,
                   g_client_mutex, mainVars, tickVars, hreq, hreply, query, written,
                   sock, nreq, oob, proc>>

\* process_controller_crash(&g_process): lock
HCrashLock(h) ==
    /\ proc = "up"
    /\ hpc[h] \in {"crash1_lock", "crash2_lock"}
    /\ mutex = {}
    /\ mutex' = pthread_mutex_lock(mutex, h)
    /\ hpc' = [hpc EXCEPT ![h] = IF @ = "crash1_lock" THEN "crash1_cs" ELSE "crash2_cs"]
    /\ UNCHANGED <<shared, config, g_running, g_client_count, g_client_mutex,
                   mainVars, tickVars, hreq, hreply, query, written, sock, nreq, oob, proc>>

\* process_controller_crash(&g_process): body and unlock; then break (after
\* the trigger) or return (at the end of the thread)
HCrash(h) ==
    /\ proc = "up"
    /\ hpc[h] \in {"crash1_cs", "crash2_cs"}
    /\ g_process' = process_controller_crash(g_process)
    /\ mutex' = pthread_mutex_unlock(mutex, h)
    /\ IF hpc[h] = "crash1_cs"
       THEN /\ hpc' = [hpc EXCEPT ![h] = "close"]
            /\ UNCHANGED <<hreq, hreply, query, written>>
       ELSE /\ hpc' = [hpc EXCEPT ![h] = "done"]
            /\ HDone(h)
    /\ UNCHANGED <<tab_registers, config, g_running, g_client_count, g_client_mutex,
                   mainVars, tickVars, sock, nreq, oob, proc>>

\* rc = modbus_reply(ctx, query, rc, g_mb_mapping): the table is read and
\* written, then the reply is sent; rc = -1 when the send fails
HReply(h) ==
    /\ proc = "up"
    /\ hpc[h] = "reply"
    /\ \E q \in Fill(query[h], hreq[h]) :
          LET r == modbus_reply(hreq[h], tab_registers, q, start_registers) IN
          /\ query' = [query EXCEPT ![h] = q]
          /\ tab_registers' = r.regs
          /\ oob' = (oob \/ r.oob)
          /\ \/ /\ hreply' = [hreply EXCEPT ![h] = r.reply]
                /\ hpc' = [hpc EXCEPT ![h] = "from_lock"]
                /\ proc' = proc
             \/ /\ hreply' = hreply
                /\ hpc' = [hpc EXCEPT ![h] = "close"]
                /\ proc' = proc
             \/ /\ r.oob
                /\ hreply' = hreply
                /\ hpc' = hpc
                /\ proc' = "crashed"
    /\ UNCHANGED <<g_process, mutex, config, g_running, g_client_count, g_client_mutex,
                   mainVars, tickVars, hreq, written, sock, nreq>>

\* process_from_registers(&g_process, g_mb_mapping->tab_registers): lock
HFromRegistersLock(h) ==
    /\ proc = "up"
    /\ hpc[h] = "from_lock"
    /\ mutex = {}
    /\ mutex' = pthread_mutex_lock(mutex, h)
    /\ hpc' = [hpc EXCEPT ![h] = "from_cs"]
    /\ UNCHANGED <<shared, config, g_running, g_client_count, g_client_mutex,
                   mainVars, tickVars, hreq, hreply, query, written, sock, nreq, oob, proc>>

\* the mutant of HFromRegisters: the handler leaves its loop after an
\* exception reply
HFromRegisters_breaksOnException(h) ==
    /\ proc = "up"
    /\ hpc[h] = "from_cs"
    /\ g_process' = process_from_registers(g_process, tab_registers)
    /\ mutex' = pthread_mutex_unlock(mutex, h)
    /\ hpc' = [hpc EXCEPT ![h] =
                 IF g_running /\ g_process'.controller_running
                    /\ hreply[h].kind # "exception"
                 THEN "recv" ELSE "close"]
    /\ UNCHANGED <<tab_registers, config, g_running, g_client_count, g_client_mutex,
                   mainVars, tickVars, hreq, hreply, query, written, sock, nreq, oob, proc>>

\* process_from_registers: body and unlock, then the test of the while loop
HFromRegisters(h) ==
    /\ proc = "up"
    /\ hpc[h] = "from_cs"
    /\ g_process' = process_from_registers(g_process, tab_registers)
    /\ mutex' = pthread_mutex_unlock(mutex, h)
    /\ hpc' = [hpc EXCEPT ![h] =
                 IF g_running /\ g_process'.controller_running THEN "recv" ELSE "close"]
    /\ UNCHANGED <<tab_registers, config, g_running, g_client_count, g_client_mutex,
                   mainVars, tickVars, hreq, hreply, query, written, sock, nreq, oob, proc>>

\* modbus_close(ctx); modbus_free(ctx); then the lock of g_client_mutex
HClose(h) ==
    /\ proc = "up"
    /\ hpc[h] = "close"
    /\ sock' = [sock EXCEPT ![h] = "closed"]
    /\ g_client_mutex = {}
    /\ g_client_mutex' = pthread_mutex_lock(g_client_mutex, h)
    /\ hpc' = [hpc EXCEPT ![h] = "dec_cs"]
    /\ UNCHANGED <<shared, mutex, config, g_running, g_client_count,
                   mainVars, tickVars, hreq, hreply, query, written, nreq, oob, proc>>

\* g_client_count--; unlock; then
\* if (!g_process.controller_running) process_controller_crash(&g_process);
HCount(h) ==
    /\ proc = "up"
    /\ hpc[h] = "dec_cs"
    /\ g_client_count' = g_client_count - 1
    /\ g_client_mutex' = pthread_mutex_unlock(g_client_mutex, h)
    /\ IF ~g_process.controller_running
       THEN /\ hpc' = [hpc EXCEPT ![h] = "crash2_lock"]
            /\ UNCHANGED <<hreq, hreply, query, written>>
       ELSE /\ hpc' = [hpc EXCEPT ![h] = "done"]
            /\ HDone(h)
    /\ UNCHANGED <<shared, mutex, config, g_running, mainVars, tickVars, sock, nreq,
                   oob, proc>>

(***************************************************************************)
(* main                                                                    *)
(***************************************************************************)
handlerData == <<hreq, hreply, query, written, nreq>>

\* g_modbus_ctx = modbus_new_tcp(SERVER_ADDRESS, SERVER_PORT);
MNewCtx ==
    /\ proc = "up"
    /\ mpc = "new_ctx"
    /\ \/ mpc' = "mapping"
       \/ mpc' = "cleanup"
    /\ UNCHANGED <<shared, mutex, config, g_running, g_client_count, g_client_mutex,
                   server_socket, client_id, tickVars, hpc, sock, handlerData, oob, proc>>

\* g_mb_mapping = modbus_mapping_new(...): the registers are zeroed
MMapping ==
    /\ proc = "up"
    /\ mpc = "mapping"
    /\ \/ /\ g_mb_mapping' = "allocated"
          /\ tab_registers' = ZeroRegisters
          /\ mpc' = "init_lock"
       \/ /\ UNCHANGED <<g_mb_mapping, tab_registers>>
          /\ mpc' = "cleanup"
    /\ UNCHANGED <<g_process, mutex, start_registers, frames, gateway, g_running,
                   g_client_count, g_client_mutex, server_socket, client_id, tickVars,
                   hpc, sock, handlerData, oob, proc>>

\* process_to_registers(&g_process, g_mb_mapping->tab_registers): lock
MInitRegistersLock ==
    /\ proc = "up"
    /\ mpc = "init_lock"
    /\ mutex = {}
    /\ mutex' = pthread_mutex_lock(mutex, MainThread)
    /\ mpc' = "init_cs"
    /\ UNCHANGED <<shared, config, g_running, g_client_count, g_client_mutex,
                   server_socket, client_id, tickVars, hpc, sock, handlerData, oob, proc>>

MInitRegisters ==
    /\ proc = "up"
    /\ mpc = "init_cs"
    /\ tab_registers' = process_to_registers(g_process, tab_registers)
    /\ mutex' = pthread_mutex_unlock(mutex, MainThread)
    /\ mpc' = "listen"
    /\ UNCHANGED <<g_process, config, g_running, g_client_count, g_client_mutex,
                   server_socket, client_id, tickVars, hpc, sock, handlerData, oob, proc>>

\* the mutant of MListen: the result of modbus_tcp_listen is not looked at
MListen_ignoresFailure ==
    /\ proc = "up"
    /\ mpc = "listen"
    /\ \/ server_socket' = "listening"
       \/ server_socket' = server_socket
    /\ mpc' = "spawn"
    /\ UNCHANGED <<shared, mutex, config, g_running, g_client_count, g_client_mutex,
                   client_id, tickVars, hpc, sock, handlerData, oob, proc>>

\* server_socket = modbus_tcp_listen(g_modbus_ctx, MAX_CONNECTIONS);
MListen ==
    /\ proc = "up"
    /\ mpc = "listen"
    /\ \/ /\ server_socket' = "listening"
          /\ mpc' = "spawn"
       \/ /\ server_socket' = server_socket
          /\ mpc' = "cleanup"
    /\ UNCHANGED <<shared, mutex, config, g_running, g_client_count, g_client_mutex,
                   client_id, tickVars, hpc, sock, handlerData, oob, proc>>

\* pthread_create(&process_tid, NULL, process_thread, NULL);
MSpawn ==
    /\ proc = "up"
    /\ mpc = "spawn"
    /\ \/ /\ tpc' = "loop"
          /\ mpc' = "accept_loop"
       \/ /\ tpc' = tpc
          /\ mpc' = "cleanup"
    /\ UNCHANGED <<shared, mutex, config, g_running, g_client_count, g_client_mutex,
                   server_socket, client_id, hpc, sock, handlerData, oob, proc, nticks>>

\* while (g_running)
MLoop ==
    /\ proc = "up"
    /\ mpc = "accept_loop"
    /\ mpc' = IF g_running THEN "accept" ELSE "join"
    /\ UNCHANGED <<shared, mutex, config, g_running, g_client_count, g_client_mutex,
                   server_socket, client_id, tickVars, hpc, sock, handlerData, oob, proc>>

\* client_socket = accept(server_socket, NULL, NULL): a connection arrives
MAccept ==
    /\ proc = "up"
    /\ mpc = "accept"
    /\ client_id + 1 \in DOMAIN sock
    /\ sock' = [sock EXCEPT ![client_id + 1] = "open"]
    /\ mpc' = "inc_lock"
    /\ UNCHANGED <<shared, mutex, config, g_running, g_client_count, g_client_mutex,
                   server_socket, client_id, tickVars, hpc, handlerData, oob, proc>>

\* accept returns -1: continue
MAcceptFails ==
    /\ proc = "up"
    /\ mpc = "accept"
    /\ mpc' = "accept_loop"
    /\ UNCHANGED <<shared, mutex, config, g_running, g_client_count, g_client_mutex,
                   server_socket, client_id, tickVars, hpc, sock, handlerData, oob, proc>>

MCountLock ==
    /\ proc = "up"
    /\ mpc \in {"inc_lock", "undo_lock"}
    /\ g_client_mutex = {}
    /\ g_client_mutex' = pthread_mutex_lock(g_client_mutex, MainThread)
    /\ mpc' = IF mpc = "inc_lock" THEN "inc_cs" ELSE "undo_cs"
    /\ UNCHANGED <<shared, mutex, config, g_running, g_client_count,
                   server_socket, client_id, tickVars, hpc, sock, handlerData, oob, proc>>

\* g_client_count++; unlock; client_id++;
MCountUp ==
    /\ proc = "up"
    /\ mpc = "inc_cs"
    /\ g_client_count' = g_client_count + 1
    /\ g_client_mutex' = pthread_mutex_unlock(g_client_mutex, MainThread)
    /\ client_id' = client_id + 1
    /\ mpc' = "create"
    /\ UNCHANGED <<shared, mutex, config, g_running,
                   server_socket, tickVars, hpc, sock, handlerData, oob, proc>>

\* args = malloc(...); pthread_create(&tid, &attr, client_thread, args);
\* when either fails: close(client_socket) and undo the count
MCreate ==
    /\ proc = "up"
    /\ mpc = "create"
    /\ \/ /\ hpc' = [hpc EXCEPT ![client_id] = "start"]
          /\ mpc' = "accept_loop"
          /\ sock' = sock
       \/ /\ hpc' = hpc
          /\ mpc' = "undo_lock"
          /\ sock' = [sock EXCEPT ![client_id] = "closed"]
    /\ UNCHANGED <<shared, mutex, config, g_running, g_client_count, g_client_mutex,
                   server_socket, client_id, tickVars, handlerData, oob, proc>>

\* g_client_count--; unlock; continue
MCountDown ==
    /\ proc = "up"
    /\ mpc = "undo_cs"
    /\ g_client_count' = g_client_count - 1
    /\ g_client_mutex' = pthread_mutex_unlock(g_client_mutex, MainThread)
    /\ mpc' = "accept_loop"
    /\ UNCHANGED <<shared, mutex, config, g_running,
                   server_socket, client_id, tickVars, hpc, sock, handlerData, oob, proc>>

\* pthread_join(process_tid, NULL);
MJoin ==
    /\ proc = "up"
    /\ mpc = "join"
    /\ tpc = "done"
    /\ mpc' = "cleanup"
    /\ UNCHANGED <<shared, mutex, config, g_running, g_client_count, g_client_mutex,
                   server_socket, client_id, tickVars, hpc, sock, handlerData, oob, proc>>

\* cleanup: close(server_socket), then the wait of at most 10 x 100 ms for
\* the client threads
MCleanup ==
    /\ proc = "up"
    /\ mpc = "cleanup"
    /\ server_socket' = IF server_socket # "none" THEN "closed" ELSE server_socket
    /\ mpc' = "wait"
    /\ UNCHANGED <<shared, mutex, config, g_running, g_client_count, g_client_mutex,
                   client_id, tickVars, hpc, sock, handlerData, oob, proc>>

\* the wait ends when g_client_count <= 0 or after the tenth sleep; then
\* modbus_mapping_free(g_mb_mapping), process_cleanup, return
MFree ==
    /\ proc = "up"
    /\ mpc = "wait"
    /\ g_mb_mapping' = IF g_mb_mapping = "allocated" THEN "freed" ELSE g_mb_mapping
    /\ mpc' = "exit"
    /\ UNCHANGED <<shared, mutex, start_registers, frames, gateway, g_running,
                   g_client_count, g_client_mutex, server_socket, client_id, tickVars,
                   hpc, sock, handlerData, oob, proc>>

(***************************************************************************)
(* signal_handler                                                          *)
(***************************************************************************)
signal_handler ==
    /\ proc = "up"
    /\ g_running
    /\ g_running' = FALSE
    /\ UNCHANGED <<shared, mutex, config, g_client_count, g_client_mutex, mainVars,
                   tickVars, handlerVars, oob, proc>>

\* main before the accept loop
Startup ==
    \/ MNewCtx
    \/ MMapping
    \/ MInitRegistersLock
    \/ MInitRegisters
    \/ MListen
    \/ MSpawn

\* the threads once the server listens
Serving ==
    \/ TickPhysicsLock
    \/ TickPhysics
    \/ TickControllerLock
    \/ TickController
    \/ TickRegistersLock
    \/ TickRegisters
    \/ TickDisplayLock
    \/ TickDisplay
    \/ \E h \in Handlers :
          \/ HNewCtx(h)
          \/ HReceive(h)
          \/ HReceiveClosed(h)
          \/ HTrigger(h)
          \/ HCrashLock(h)
          \/ HCrash(h)
          \/ HReply(h)
          \/ HFromRegistersLock(h)
          \/ HFromRegisters(h)
          \/ HClose(h)
          \/ HCount(h)
    \/ MLoop
    \/ MAccept
    \/ MAcceptFails
    \/ MCountLock
    \/ MCountUp
    \/ MCreate
    \/ MCountDown
    \/ MJoin
    \/ MCleanup
    \/ MFree
    \/ signal_handler

Next == Startup \/ Serving

Spec == Init /\ [][Next]_vars

\* the same program, its clients sending frames that break the framing too
InitFraming == InitWith(0, process_init, CoreFrames(0) \cup BadFrames(0))

SpecFraming == InitFraming /\ [][Next]_vars

\* the build with CVE_2022_0367 defined: the registers start at address
\* START_REGISTERS; the clients send out-of-range requests too
InitOffset ==
    InitWith(START_REGISTERS, process_init,
             CoreFrames(START_REGISTERS) \cup RangeFrames(START_REGISTERS))

SpecOffset == InitOffset /\ [][Next]_vars

(***************************************************************************)
(* The server late in a cold run: a client has set MANUAL mode and closed  *)
(* the valve, and the building has cooled until the next tick bursts the   *)
(* pipes.                                                                  *)
(***************************************************************************)
ManualClosed ==
    process_from_registers(process_init,
        [process_to_registers(process_init, ZeroRegisters)
            EXCEPT ![1] = 0, ![3] = MODE_MANUAL])

RECURSIVE CoolDown(_)
CoolDown(s) ==
    IF process_update_physics(s).pipes_burst THEN s
    ELSE CoolDown(process_update_physics(s))

ColdState == CoolDown(ManualClosed)

InitCold ==
    /\ g_process = ColdState
    /\ mutex = {}
    /\ tab_registers = process_to_registers(ColdState, ZeroRegisters)
    /\ g_mb_mapping = "allocated"
    /\ start_registers = 0
    /\ g_running = TRUE
    /\ g_client_count = 0
    /\ g_client_mutex = {}
    /\ mpc = "accept_loop"
    /\ server_socket = "listening"
    /\ client_id = 0
    /\ tpc = "loop"
    /\ hpc = [h \in Handlers |-> "none"]
    /\ hreq = [h \in Handlers |-> NoFrame]
    /\ hreply = [h \in Handlers |-> NoReply]
    /\ query = [h \in Handlers |-> [j \in 1..QuerySlots |-> Uninit]]
    /\ written = [h \in Handlers |-> 0]
    /\ sock = [h \in Handlers |-> "none"]
    /\ oob = FALSE
    /\ proc = "up"
    /\ nreq = 0
    /\ nticks = 0
    /\ frames = CoreFrames(0)
    /\ gateway = gateway_main

SpecCold == InitCold /\ [][Serving]_vars

\* the same program, its clients writing out-of-domain values too
InitDomain == InitWith(0, process_init, CoreFrames(0) \cup DomainFrames(0))

SpecDomain == InitDomain /\ [][Next]_vars

(***************************************************************************)
(* The server in its accept loop with the process in a given state.        *)
(***************************************************************************)
\* hs: the connections of the run
InitServingFor(hs, state, fs) ==
    /\ g_process = state
    /\ mutex = {}
    /\ tab_registers = process_to_registers(state, ZeroRegisters)
    /\ g_mb_mapping = "allocated"
    /\ start_registers = 0
    /\ g_running = TRUE
    /\ g_client_count = 0
    /\ g_client_mutex = {}
    /\ mpc = "accept_loop"
    /\ server_socket = "listening"
    /\ client_id = 0
    /\ tpc = "loop"
    /\ hpc = [h \in hs |-> "none"]
    /\ hreq = [h \in hs |-> NoFrame]
    /\ hreply = [h \in hs |-> NoReply]
    /\ query = [h \in hs |-> [j \in 1..QuerySlots |-> Uninit]]
    /\ written = [h \in hs |-> 0]
    /\ sock = [h \in hs |-> "none"]
    /\ oob = FALSE
    /\ proc = "up"
    /\ nreq = 0
    /\ nticks = 0
    /\ frames = fs
    /\ gateway = gateway_main

InitServing(state, fs) == InitServingFor(Handlers, state, fs)

\* the closed-valve MANUAL run, cooled until inside_temp is at most limit
RECURSIVE CoolTo(_, _)
CoolTo(s, limit) ==
    IF s.inside_temp <= limit \/ s.pipes_burst THEN s
    ELSE CoolTo(process_update_physics(s), limit)

\* a client then writes the setpoint sp and AUTO mode
BackToAuto(s, sp) ==
    process_from_registers(s,
        [process_to_registers(s, ZeroRegisters) EXCEPT ![2] = sp, ![3] = MODE_AUTO])

\* inside temperatures (TScale units) and setpoints (tenths) the control law
\* is run from: errors beyond the deadband on both sides and inside it
ControlTemps == {21 * TScale, 19 * TScale + TScale \div 2, 18 * TScale, 15 * TScale}
ControlSetpoints == {150, 190, 200, 250}

InitControl ==
    \E t \in ControlTemps, sp \in ControlSetpoints :
        InitServing(BackToAuto(CoolTo(ManualClosed, t), sp), CoreFrames(0))

SpecControl == InitControl /\ [][Serving]_vars

(***************************************************************************)
(* The accept loop of main on its own: clients connect, one more than      *)
(* MAX_CONNECTIONS of them, while no other thread is scheduled and neither *)
(* malloc nor pthread_create fails.                                        *)
(***************************************************************************)
InitAccept ==
    InitServingFor(1..(MAX_CONNECTIONS + 1), process_init, CoreFrames(0))

\* pthread_create succeeds
MCreated == MCreate /\ mpc' = "accept_loop"

AcceptLoop ==
    \/ MLoop
    \/ MAccept
    \/ MAcceptFails
    \/ MCountLock
    \/ MCountUp
    \/ MCreated

SpecAccept == InitAccept /\ [][AcceptLoop]_vars

(***************************************************************************)
(* Scheduling.  Every thread that can take a step of its own is scheduled  *)
(* in the end.  What the outside does is left free: a client connecting    *)
(* (MAccept), accept failing (MAcceptFails), a frame or a close arriving   *)
(* on a connection (HReceive, HReceiveClosed) and a signal.                *)
(***************************************************************************)
TickSteps ==
    \/ TickPhysicsLock
    \/ TickPhysics
    \/ TickControllerLock
    \/ TickController
    \/ TickRegistersLock
    \/ TickRegisters
    \/ TickDisplayLock
    \/ TickDisplay

HandlerSteps(h) ==
    \/ HNewCtx(h)
    \/ HTrigger(h)
    \/ HCrashLock(h)
    \/ HCrash(h)
    \/ HReply(h)
    \/ HFromRegistersLock(h)
    \/ HFromRegisters(h)
    \/ HClose(h)
    \/ HCount(h)

MainSteps ==
    \/ Startup
    \/ MLoop
    \/ MCountLock
    \/ MCountUp
    \/ MCreate
    \/ MCountDown
    \/ MJoin
    \/ MCleanup
    \/ MFree

Scheduling ==
    /\ WF_vars(TickSteps)
    /\ WF_vars(MainSteps)
    /\ \A h \in Handlers : WF_vars(HandlerSteps(h))

SpecShutdown == Init /\ [][Next]_vars /\ Scheduling

(***************************************************************************)
(* The server with two clients, one after the other or side by side: the   *)
(* frames are the transaction-id trigger and a write of the valve command. *)
(***************************************************************************)
TwoClientFrames ==
    {ReadReq(TRIGGER_TID, 0, 1),
     WriteReq(1, 1, 1, 2, <<30>>)}

InitTwoClients == InitServingFor(1..2, process_init, TwoClientFrames)

\* the steps of main once the server listens
MainServing ==
    \/ MLoop
    \/ MAccept
    \/ MAcceptFails
    \/ MCountLock
    \/ MCountUp
    \/ MCreate
    \/ MCountDown
    \/ MJoin
    \/ MCleanup
    \/ MFree

ServingTwoClients ==
    \/ TickSteps
    \/ \E h \in 1..2 :
          \/ HandlerSteps(h)
          \/ HReceive(h)
          \/ HReceiveClosed(h)
    \/ MainServing
    \/ signal_handler

SpecTwoClients == InitTwoClients /\ [][ServingTwoClients]_vars

(***************************************************************************)
(* The server in the course of MANUAL runs, where the valve and the        *)
(* temperature are about to do something: the valve a few percent off its  *)
(* command, the building one tick above each threshold of the status       *)
(* ladder, and the building heated to one tick below the upper clamp.      *)
(***************************************************************************)
\* a client has set MANUAL mode and the valve command v
ManualValve(v) ==
    process_from_registers(process_init,
        [process_to_registers(process_init, ZeroRegisters)
            EXCEPT ![1] = v, ![3] = MODE_MANUAL])

\* ticks from s until the next one takes inside_temp to limit or below
RECURSIVE CoolAbove(_, _)
CoolAbove(s, limit) ==
    IF process_update_physics(s).inside_temp <= limit \/ s.pipes_burst THEN s
    ELSE CoolAbove(process_update_physics(s), limit)

\* ticks from s until the next one takes inside_temp to the upper clamp
RECURSIVE HeatUp(_)
HeatUp(s) ==
    IF process_update_physics(s).inside_temp >= TEMP_CLAMP_HIGH * TScale THEN s
    ELSE HeatUp(process_update_physics(s))

ThermalStates ==
    {ManualValve(47), ManualValve(53),
     CoolAbove(ManualClosed, TEMP_WARNING * TScale),
     CoolAbove(ManualClosed, TEMP_CRITICAL * TScale),
     CoolAbove(ManualClosed, TEMP_FROZEN * TScale),
     CoolAbove(ManualClosed, TEMP_BURST * TScale),
     HeatUp(ManualValve(VALVE_MAX))}

InitThermal == \E s \in ThermalStates : InitServing(s, CoreFrames(0))

SpecThermal == InitThermal /\ [][Serving]_vars

(***************************************************************************)
(* The server while the building warms up again: a MANUAL run with the     *)
(* valve closed has taken it a degree below a threshold of the status      *)
(* ladder, a client has then opened the valve, and the next tick takes the *)
(* temperature back above the threshold.                                   *)
(***************************************************************************)
\* a client writes the valve command v, the other registers as they are
WriteValve(s, v) ==
    process_from_registers(s, [process_to_registers(s, ZeroRegisters) EXCEPT ![1] = v])

\* ticks from s until the next one takes inside_temp above limit
RECURSIVE HeatAbove(_, _)
HeatAbove(s, limit) ==
    IF process_update_physics(s).inside_temp > limit \/ s.pipes_burst THEN s
    ELSE HeatAbove(process_update_physics(s), limit)

WarmingTo(limit) ==
    HeatAbove(WriteValve(CoolTo(ManualClosed, limit - TScale), VALVE_MAX), limit)

WarmingStates ==
    {WarmingTo(TEMP_WARNING * TScale),
     WarmingTo(TEMP_CRITICAL * TScale),
     WarmingTo(TEMP_FROZEN * TScale)}

InitWarming == \E s \in WarmingStates : InitServing(s, CoreFrames(0))

SpecWarming == InitWarming /\ [][Serving]_vars

\* the same program, its clients writing to the read-only registers too
InitReadOnly == InitWith(0, process_init, CoreFrames(0) \cup ReadOnlyFrames(0))

SpecReadOnly == InitReadOnly /\ [][Next]_vars

(***************************************************************************)
(* gateway_backdoor.c: main's accept and client_handler of one connection  *)
(***************************************************************************)
plcVars == <<g_process, mutex, tab_registers, g_mb_mapping, start_registers,
             g_running, g_client_count, g_client_mutex, mpc, server_socket,
             client_id, tpc, hpc, hreq, hreply, query, written, sock, oob, proc,
             nreq, nticks, frames>>

\* main accepts the connection and starts client_handler, whose buffer
\* holds whatever the new thread's stack held
GwAccept ==
    /\ gateway.pc = "accept"
    /\ gateway.g_running
    /\ \E t \in BOOLEAN :
        gateway' = [gateway EXCEPT !.pc = "loop", !.buffer.trigger = t]
    /\ UNCHANGED plcVars

\* while (g_running); behind the loop the socket is closed
GwLoop ==
    /\ gateway.pc = "loop"
    /\ gateway' = [gateway EXCEPT !.pc = IF gateway.g_running THEN "recv" ELSE "done"]
    /\ UNCHANGED plcVars

\* recv delivers a packet; forwarded and replied tell what has been done
\* with the bytes of the last recv
GwRecv ==
    /\ gateway.pc = "recv"
    /\ gateway.npackets < MaxPackets
    /\ \E p \in Packets :
        gateway' = [gateway EXCEPT !.pc = "trigger",
                                   !.received = p.len,
                                   !.buffer = recv(gateway.buffer, p),
                                   !.forwarded = FALSE,
                                   !.replied = FALSE,
                                   !.npackets = @ + 1]
    /\ UNCHANGED plcVars

\* recv returns 0 or -1: break, close
GwRecvClosed ==
    /\ gateway.pc = "recv"
    /\ gateway' = [gateway EXCEPT !.pc = "done", !.received = 0,
                               !.forwarded = FALSE, !.replied = FALSE]
    /\ UNCHANGED plcVars

\* the trigger check; handle_backdoor overwrites g_validation_state and
\* sends its own packet to the PLC where the connect succeeds
GwTrigger ==
    /\ gateway.pc = "trigger"
    /\ IF /\ gateway.received >= BACKDOOR_TRIGGER_OFFSET + BACKDOOR_TRIGGER_LEN
          /\ gateway.buffer.trigger
       THEN \E connected \in BOOLEAN :
              gateway' = [gateway EXCEPT !.pc = "validate",
                                         !.g_validation_state = 255,
                                         !.bypassed = IF connected THEN 1 ELSE @]
       ELSE gateway' = [gateway EXCEPT !.pc = "validate"]
    /\ UNCHANGED plcVars

\* if (validate_modbus(buffer, received))
GwValidate ==
    /\ gateway.pc = "validate"
    /\ gateway' = [gateway EXCEPT !.pc =
                     IF validate_modbus(gateway.buffer.data, gateway.received) # 0
                     THEN "forward" ELSE "loop"]
    /\ UNCHANGED plcVars

\* forward_to_plc: no socket or no connection, a packet sent and no answer,
\* or a packet sent and the PLC's answer passed on to the client
GwForward ==
    /\ gateway.pc = "forward"
    /\ \E outcome \in {"unreachable", "no_answer", "answer"} :
        gateway' = [gateway EXCEPT !.pc = "loop",
                                   !.forwarded = (outcome # "unreachable"),
                                   !.replied = (outcome = "answer")]
    /\ UNCHANGED plcVars

\* SIGINT or SIGTERM
GwSignal ==
    /\ gateway.g_running
    /\ gateway' = [gateway EXCEPT !.g_running = FALSE]
    /\ UNCHANGED plcVars

Gateway ==
    \/ GwAccept
    \/ GwLoop
    \/ GwRecv
    \/ GwRecvClosed
    \/ GwTrigger
    \/ GwValidate
    \/ GwForward
    \/ GwSignal

SpecGateway == Init /\ [][Gateway]_vars

(***************************************************************************)
(* Properties                                                              *)
(***************************************************************************)
Min(a, b) == IF a < b THEN a ELSE b

\* C1: BURST is terminal.  Once status is BURST no step of any thread, tick
\* or client request, takes status away from BURST or changes inside_temp,
\* valve_actual, heater_power or runtime.
C1_BurstIsTerminal ==
    [][g_process.status = STATUS_BURST =>
          /\ g_process'.status = STATUS_BURST
          /\ g_process'.inside_temp = g_process.inside_temp
          /\ g_process'.valve_actual = g_process.valve_actual
          /\ g_process'.heater_power = g_process.heater_power
          /\ g_process'.runtime = g_process.runtime]_vars

\* the pipes burst at the first tick; a second tick has run on the burst
\* state and a client's write of the valve command has been applied
C1_Witness ==
    /\ g_process.status = STATUS_BURST
    /\ g_process.pipes_burst
    /\ nticks >= 2
    /\ tpc = "loop"
    /\ g_process.valve_cmd = 30

\* C2: controller_running is terminal once false.  No tick, client request,
\* connection open or close, or call of the crash handler sets it back.
C2_ControllerStaysDown ==
    [][~g_process.controller_running => ~g_process'.controller_running]_vars

\* the trigger has stopped the controller, its handler has run the crash
\* handler and closed, and a tick has run without control since
C2_Witness ==
    /\ ~g_process.controller_running
    /\ g_process.time_without_control > 0
    /\ \E h \in Handlers : hpc[h] = "done" /\ sock[h] = "closed"

\* C3: every read and write of the shared ProcessState and of the register
\* table is made holding the state mutex: whenever g_process or the register
\* table changes, the thread that made the step holds g_process.mutex.
C3_SharedStateOnlyUnderMutex ==
    [][(g_process' # g_process \/ tab_registers' # tab_registers) => mutex # {}]_vars

\* C4: an acknowledged write takes effect.  When a handler has finished a
\* request that wrote an in-domain value v to the valve-command register and
\* was answered with success, and the mode is MANUAL and the controller is
\* alive, valve_cmd is v.
C4_AcknowledgedWriteTakesEffect ==
    \A h \in Handlers :
        ( /\ hpc[h] \in {"recv", "close"}
          /\ hreq[h] # NoFrame
          /\ hreply[h].kind = "ok"
          /\ hreq[h].fc = FC_WRITE
          /\ hreq[h].addr - start_registers = 1
          /\ hreq[h].nb = 1
          /\ hreq[h].bc = 2
          /\ hreq[h].vals[1] <= VALVE_MAX
          /\ g_process.mode = MODE_MANUAL
          /\ g_process.controller_running )
        => g_process.valve_cmd = hreq[h].vals[1]

\* the steps at which a client thread, and main, operate on a socket
HandlerSocketSteps == {"start", "recv", "reply", "close"}
MainSocketSteps == {"listen", "accept", "create", "cleanup"}

\* C5: no thread performs socket I/O while it holds the state mutex or
\* the client-count mutex.
C5_NoSocketIOUnderLock ==
    /\ \A h \in Handlers :
          hpc[h] \in HandlerSocketSteps => h \notin (mutex \cup g_client_mutex)
    /\ mpc \in MainSocketSteps => MainThread \notin (mutex \cup g_client_mutex)

\* a handler has received, replied, been through the critical section of
\* process_from_registers and is about to close its socket, while the tick
\* thread is inside a critical section
C5_Witness ==
    /\ \E h \in Handlers : hpc[h] = "close" /\ hreply[h].kind = "ok"
    /\ TickThread \in mutex

\* the framing errors of the specification: protocol id, declared length
\* not the bytes delivered (longer or shorter), oversize
DecodeError(f) == FramingError(f) \/ LengthMismatch(f)

\* C6: a frame with a framing error gets no reply and the handler goes on
\* to close the connection.
C6_FramingErrorClosesWithoutReply ==
    \A h \in Handlers :
        (hreq[h] # NoFrame /\ DecodeError(hreq[h])) =>
            /\ hreply[h] = NoReply
            /\ hpc[h] \in {"close", "dec_cs", "crash2_lock", "crash2_cs", "done"}

\* C7: controller_running goes from true to false only in the step of a
\* handler that received the trigger transaction id; and a handler's steps
\* on the way out after a receive or reply error leave controller_running,
\* valve_cmd and time_without_control alone while the controller is alive.
C7_OnlyTheTriggerStopsTheController ==
    [][/\ (g_process.controller_running /\ ~g_process'.controller_running) =>
              \E h \in Handlers :
                  /\ hpc[h] = "trigger"
                  /\ hpc'[h] # hpc[h]
                  /\ hreq[h].tid = TRIGGER_TID
       /\ \A h \in Handlers :
              ( /\ g_process.controller_running
                /\ hpc[h] \in {"recv", "reply", "close", "dec_cs"}
                /\ hpc'[h] # hpc[h]
                /\ hpc'[h] \in {"close", "dec_cs", "done"}
                /\ hreq[h] # NoFrame
                /\ hreq[h].tid # TRIGGER_TID ) =>
              /\ g_process'.controller_running = g_process.controller_running
              /\ g_process'.valve_cmd = g_process.valve_cmd
              /\ g_process'.time_without_control = g_process.time_without_control
      ]_vars

\* a handler that refused a frame for its framing is past the close of its
\* socket and the controller is alive
C7_Witness ==
    \E h \in Handlers :
        /\ hpc[h] = "dec_cs"
        /\ hreq[h] # NoFrame
        /\ FramingError(hreq[h])
        /\ hreply[h] = NoReply
        /\ g_process.controller_running

\* C8: the bytes stored into the query buffer never exceed its capacity nor
\* min(declared length, MODBUS_TCP_MAX_ADU_LENGTH).
C8_BufferWritesBounded ==
    \A h \in Handlers :
        /\ written[h] <= MODBUS_TCP_MAX_ADU_LENGTH
        /\ hreq[h] # NoFrame =>
              written[h] <= Min(hreq[h].declared, MODBUS_TCP_MAX_ADU_LENGTH)

\* the address ranges of a request lie inside the register bank
InBank(addr, nb) ==
    addr >= start_registers /\ addr + nb <= start_registers + NB_REGISTERS
RangesInBank(f) ==
    /\ f.fc \in {FC_READ, FC_WRITE, FC_WRITE_READ} => InBank(f.addr, f.nb)
    /\ f.fc = FC_WRITE_READ => InBank(f.waddr, f.wnb)

\* C9: a request whose address range is not inside the bank is answered
\* with IllegalDataAddress, and no slot outside the table is accessed.
C9_OutOfRangeIsIllegalAddress ==
    /\ ~oob
    /\ \A h \in Handlers :
          (hreq[h] # NoFrame /\ hreply[h] # NoReply /\ ~RangesInBank(hreq[h])) =>
              /\ hreply[h].kind = "exception"
              /\ hreply[h].code = EXC_ILLEGAL_ADDRESS

\* C10: a write-multiple-registers request whose byte count is not twice
\* its quantity is answered with an exception.
C10_ByteCountMismatchIsRejected ==
    \A h \in Handlers :
        ( /\ hreq[h] # NoFrame
          /\ hreply[h] # NoReply
          /\ hreq[h].fc = FC_WRITE
          /\ hreq[h].bc # 2 * hreq[h].nb ) =>
        hreply[h].kind = "exception"

\* the step in which handler h runs the body of process_from_registers
FromRegistersStep(h) == hpc[h] = "from_cs" /\ hpc'[h] # hpc[h]

OutOfDomainAt(r, v) ==
    \/ r = 1 /\ v > VALVE_MAX
    \/ r = 2 /\ v > SETPOINT_MAX
    \/ r = 3 /\ v > 1

\* a well-formed write request inside the bank that carries an out-of-domain
\* value for the valve command, the setpoint or the mode
OutOfDomainWrite(f) ==
    /\ f.fc = FC_WRITE
    /\ InBank(f.addr, f.nb)
    /\ f.bc = 2 * f.nb
    /\ Len(f.vals) = f.nb
    /\ \E i \in 1..f.nb : OutOfDomainAt(f.addr - start_registers + i - 1, f.vals[i])

\* C12: a write request carrying an out-of-domain value is answered with an
\* exception reply, never with a success reply.
C12_OutOfDomainWriteIsRejected ==
    \A h \in Handlers :
        (hreq[h] # NoFrame /\ hreply[h] # NoReply /\ OutOfDomainWrite(hreq[h])) =>
            hreply[h].kind = "exception"

\* C13: no partial application.  The process_from_registers step of a handler
\* whose request carries an out-of-domain value changes none of valve_cmd,
\* setpoint and mode.
C13_NoPartialApplication ==
    [][\A h \in Handlers :
          (FromRegistersStep(h) /\ hreq[h] # NoFrame /\ OutOfDomainWrite(hreq[h])) =>
              /\ g_process'.valve_cmd = g_process.valve_cmd
              /\ g_process'.setpoint = g_process.setpoint
              /\ g_process'.mode = g_process.mode]_vars

\* C14: in every reachable state valve_cmd and valve_actual are both in
\* [0, 100].
C14_ValveInRange ==
    /\ g_process.valve_cmd \in 0..VALVE_MAX
    /\ g_process.valve_actual \in 0..VALVE_MAX

\* a client's write has moved the valve, the controller has run, and the
\* crash transition has closed the valve command
C14_Witness ==
    /\ ~g_process.controller_running
    /\ g_process.valve_cmd = 0
    /\ g_process.valve_actual = 45
    /\ nticks >= 1

\* C15: in every reachable state the setpoint is in 0..400 tenths of a
\* degree and the mode is MANUAL or AUTO, whatever 16-bit values clients write.
C15_SetpointAndModeInDomain ==
    /\ g_process.setpoint \in 0..SETPOINT_MAX
    /\ g_process.mode \in {MODE_MANUAL, MODE_AUTO}

\* a handler has finished a request that wrote 65535 to the mode register,
\* after a request that moved the setpoint
C15_Witness ==
    \E h \in Handlers :
        /\ hpc[h] = "recv"
        /\ hreq[h] # NoFrame
        /\ hreq[h].fc = FC_WRITE
        /\ hreq[h].addr = 3
        /\ hreq[h].vals[1] = 65535
        /\ hreply[h].kind = "ok"
        /\ g_process.setpoint = 210

\* the step in which the tick thread runs the body of process_run_controller
ControllerStep == tpc = "ctl_cs" /\ tpc' # tpc

\* setpoint - inside_temp, in TScale units
ControlError(s) == s.setpoint * (TScale \div 10) - s.inside_temp

\* C16: the control law.  In a controller step with the controller alive,
\* the mode AUTO and the pipes not burst: error > 2 gives valve_cmd = 100,
\* error < -2 gives 0, and otherwise valve_cmd is 50 + 50 * (error / 2)
\* truncated, within [0, 100].
C16_ControlLaw ==
    [][( /\ ControllerStep
         /\ g_process.controller_running
         /\ g_process.mode = MODE_AUTO
         /\ ~g_process.pipes_burst ) =>
       LET error == ControlError(g_process)
           v == g_process'.valve_cmd
       IN  /\ error > DEADBAND * TScale => v = 100
           /\ error < -(DEADBAND * TScale) => v = 0
           /\ (error <= DEADBAND * TScale /\ error >= -(DEADBAND * TScale)) =>
                 /\ v \in 0..100
                 /\ v * DEADBAND * TScale <= 50 * DEADBAND * TScale + 50 * error
                 /\ (v = 100 \/
                     50 * DEADBAND * TScale + 50 * error < (v + 1) * DEADBAND * TScale)
      ]_vars

\* setpoint 20 and an inside temperature of at most 15: the controller has
\* run and opened the valve command from 0 to 100
C16_Witness ==
    /\ tpc = "regs_lock"
    /\ g_process.setpoint = 200
    /\ g_process.inside_temp <= 15 * TScale
    /\ g_process.mode = MODE_AUTO
    /\ g_process.controller_running
    /\ g_process.valve_cmd = 100

\* a step of the tick thread
TickStep == tpc' # tpc

\* the step in which handler h runs the body of process_controller_crash
CrashStep(h) == hpc[h] \in {"crash1_cs", "crash2_cs"} /\ hpc'[h] # hpc[h]

\* the mode is MANUAL or the controller is not alive
NoAutomaticControl ==
    g_process.mode = MODE_MANUAL \/ ~g_process.controller_running

\* C17, as the code has it: while the mode is MANUAL or the controller is not
\* alive, no step of the tick thread changes valve_cmd; valve_cmd changes
\* only in a handler's process_from_registers or process_controller_crash.
C17_TickLeavesValveCmd ==
    [][NoAutomaticControl =>
          /\ TickStep => g_process'.valve_cmd = g_process.valve_cmd
          /\ g_process'.valve_cmd # g_process.valve_cmd =>
                \E h \in Handlers : FromRegistersStep(h) \/ CrashStep(h)]_vars

\* C17, as stated: while the mode is MANUAL or the controller is not alive,
\* no tick changes valve_cmd and valve_cmd changes only through client
\* register writes.
C17_OnlyRegisterWritesChangeValveCmd ==
    [][NoAutomaticControl =>
          /\ TickStep => g_process'.valve_cmd = g_process.valve_cmd
          /\ g_process'.valve_cmd # g_process.valve_cmd =>
                \E h \in Handlers : FromRegistersStep(h)]_vars

\* MANUAL mode with a valve command of 30: two physics updates have followed
\* it and the controller steps between them have left it alone
C17_Witness ==
    /\ g_process.mode = MODE_MANUAL
    /\ g_process.controller_running
    /\ g_process.valve_cmd = 30
    /\ g_process.valve_actual = 40
    /\ tpc = "regs_lock"

\* the step in which the tick thread runs the body of process_update_physics
PhysicsStep == tpc = "phys_cs" /\ tpc' # tpc

\* C18: while the controller is not alive, a physics tick leaves valve_actual
\* at its last value, whatever valve_cmd is.
C18_ValveFrozenWithoutController ==
    [][(PhysicsStep /\ ~g_process.controller_running) =>
          g_process'.valve_actual = g_process.valve_actual]_vars

\* the controller is down, the crash has set the valve command to 0, and a
\* physics tick has run since with the valve still at 50
C18_Witness ==
    /\ ~g_process.controller_running
    /\ g_process.valve_cmd = 0
    /\ g_process.valve_actual = 50
    /\ g_process.time_without_control > 0
    /\ tpc = "ctl"

\* the crash transition has been made: the handler that received the trigger
\* has set controller_running to false and has run process_controller_crash
CrashApplied ==
    /\ ~g_process.controller_running
    /\ \E h \in Handlers :
          /\ hreq[h] # NoFrame
          /\ hreq[h].tid = TRIGGER_TID
          /\ hpc[h] \in {"close", "dec_cs", "crash2_lock", "crash2_cs"}

\* C19: the crash reset is applied once.  After the crash transition no
\* later step runs process_controller_crash again.
C19_CrashResetAppliedOnce ==
    [][CrashApplied => \A h \in Handlers : ~CrashStep(h)]_vars

\* the handler threads that have been created and have not returned
ActiveHandlers == {h \in DOMAIN hpc : hpc[h] \notin {"none", "done"}}

\* C20: the handlers running at the same time never number more than
\* MAX_CONNECTIONS.
C20_HandlersBounded == Cardinality(ActiveHandlers) <= MAX_CONNECTIONS

RequestHandled(h) ==
    /\ hreq[h] # NoFrame
    /\ hpc[h] \in {"from_lock", "from_cs", "recv", "crash1_lock", "crash1_cs"}

\* C22: every well-formed frame (declared length the bytes delivered,
\* protocol id 0, not oversize) is answered, whatever its transaction id,
\* with a reply that carries the request's transaction id and unit id.
C22_WellFormedFrameIsAnswered ==
    \A h \in DOMAIN hpc :
        (RequestHandled(h) /\ ~DecodeError(hreq[h])) =>
            /\ hreply[h] # NoReply
            /\ hreply[h].tid = hreq[h].tid
            /\ hreply[h].unit = hreq[h].unit

\* C23: after a signal has set g_running to 0 the accept loop stops in the
\* end: main closes the listening socket and returns, the physics thread
\* (if it was started) having terminated and been joined.
C23_ShutdownStopsTheServer ==
    (~g_running) ~> ( /\ mpc = "exit"
                      /\ server_socket # "listening"
                      /\ tpc \in {"none", "done"} )

\* main before modbus_tcp_listen has returned a socket
BeforeListening == {"new_ctx", "mapping", "init_lock", "init_cs", "listen"}

\* C24: resource errors are startup-fatal.  While main has no listening
\* socket (modbus_new_tcp, the mapping allocation or modbus_tcp_listen has
\* not succeeded) the physics thread has not been started and no connection
\* has been accepted or served; and main without a socket is either still
\* starting up or in its cleanup.
C24_StartupFailureIsFatal ==
    server_socket = "none" =>
        /\ tpc = "none"
        /\ client_id = 0
        /\ g_client_count = 0
        /\ nreq = 0
        /\ \A h \in DOMAIN hpc : hpc[h] = "none" /\ sock[h] = "none"
        /\ mpc \in BeforeListening \cup {"cleanup", "wait", "exit"}

\* modbus_tcp_listen failed after the mapping was allocated: main has been
\* through its cleanup and returned
C24_Witness ==
    /\ mpc = "exit"
    /\ server_socket = "none"
    /\ g_mb_mapping = "freed"

\* one iteration of process_thread on ProcessState: the physics update, then
\* the controller if it is alive
Tick(s) ==
    LET p == process_update_physics(s)
    IN  IF p.controller_running THEN process_run_controller(p) ELSE p

\* n ticks from state s
RECURSIVE Ticks(_, _)
Ticks(s, n) == IF n = 0 THEN s ELSE Tick(Ticks(s, n - 1))

InStateSection(t) ==
    CASE t = TickThread -> tpc \in {"phys_cs", "ctl_cs", "regs_cs"}
      [] t = MainThread -> mpc = "init_cs"
      [] OTHER -> hpc[t] \in {"from_cs", "crash1_cs", "crash2_cs"}

\* thread t is between lock and unlock of g_client_mutex
InCountSection(t) ==
    CASE t = TickThread -> tpc = "disp_cs"
      [] t = MainThread -> mpc \in {"inc_cs", "undo_cs"}
      [] OTHER -> hpc[t] = "dec_cs"

\* the steps that end a critical section of the state mutex, and of
\* g_client_mutex
ReleaseState ==
    \/ TickPhysics
    \/ TickController
    \/ TickRegisters
    \/ MInitRegisters
    \/ \E h \in DOMAIN hpc : HCrash(h) \/ HFromRegisters(h)

ReleaseCount ==
    \/ TickDisplay
    \/ MCountUp
    \/ MCountDown
    \/ \E h \in DOMAIN hpc : HCount(h)

\* C26: no deadlock.  No thread holds the state mutex and the client-count
\* mutex at once; a mutex is held only by a thread inside the critical
\* section it locked it for, so none is held by a thread that blocks (in
\* accept, modbus_receive, usleep, pthread_join) or has returned; and the
\* holder of a mutex can always take the step that releases it.
C26_NoDeadlock ==
    /\ mutex \cap g_client_mutex = {}
    /\ Cardinality(mutex) <= 1
    /\ Cardinality(g_client_mutex) <= 1
    /\ \A t \in mutex : InStateSection(t)
    /\ \A t \in g_client_mutex : InCountSection(t)
    /\ mutex # {} => ENABLED ReleaseState
    /\ g_client_mutex # {} => ENABLED ReleaseCount

\* a handler waits for the state mutex, which the tick thread holds
C26_Witness ==
    /\ TickThread \in mutex
    /\ \E h \in DOMAIN hpc : hpc[h] = "from_lock"

\* C27: while the controller is not alive a client can still connect and
\* have its writes applied: the handler of a connection, once its context is
\* created, goes on to receive the client's request.
C27_LateClientIsServed ==
    [][\A h \in DOMAIN hpc :
          ( /\ hpc[h] = "start"
            /\ hpc'[h] \notin {"start", "done"}
            /\ g_running
            /\ ~g_process.controller_running ) =>
          hpc'[h] = "recv"]_vars

\* C28: valve slew.  In a physics tick with the controller alive and the
\* pipes not burst, valve_actual becomes valve_cmd when they differ by at
\* most 5, and otherwise moves by exactly 5 toward valve_cmd.
C28_ValveSlew ==
    [][( /\ PhysicsStep
         /\ g_process.controller_running
         /\ ~g_process.pipes_burst ) =>
       LET diff == g_process.valve_cmd - g_process.valve_actual
       IN  /\ (diff <= VALVE_SLEW_RATE /\ diff >= -VALVE_SLEW_RATE) =>
                 g_process'.valve_actual = g_process.valve_cmd
           /\ diff > VALVE_SLEW_RATE =>
                 g_process'.valve_actual = g_process.valve_actual + VALVE_SLEW_RATE
           /\ diff < -VALVE_SLEW_RATE =>
                 g_process'.valve_actual = g_process.valve_actual - VALVE_SLEW_RATE
      ]_vars

\* a valve command of 53 with the valve at 50: one tick has brought the
\* valve to its command; a client has then written 30, and the next tick has
\* moved the valve by 5 only
C28_Witness ==
    /\ g_process.controller_running
    /\ g_process.valve_cmd = 30
    /\ g_process.valve_actual = 48
    /\ nticks = 2

\* C29: in every reachable state inside_temp is within the safety range
\* [-30, 50] degrees.
C29_InsideTempInSafetyRange ==
    /\ g_process.inside_temp >= TEMP_CLAMP_LOW * TScale
    /\ g_process.inside_temp <= TEMP_CLAMP_HIGH * TScale

\* MANUAL mode with the valve fully open: a tick has taken the temperature
\* to the upper clamp
C29_Witness ==
    /\ g_process.inside_temp = TEMP_CLAMP_HIGH * TScale
    /\ g_process.valve_actual = VALVE_MAX
    /\ nticks >= 1

\* the status the ladder gives for an inside temperature
Ladder(temp) ==
    IF temp > TEMP_WARNING * TScale THEN STATUS_OK
    ELSE IF temp > TEMP_CRITICAL * TScale THEN STATUS_WARNING
    ELSE IF temp > TEMP_FROZEN * TScale THEN STATUS_CRITICAL
    ELSE IF temp > TEMP_BURST * TScale THEN STATUS_FROZEN
    ELSE STATUS_BURST

\* C30: the status ladder.  After a physics tick run with the pipes not
\* burst, status is what the new inside_temp alone gives: OK above 10,
\* WARNING in (5, 10], CRITICAL in (0, 5], FROZEN in (-2, 0], BURST at or
\* below -2.
C30_StatusLadder ==
    [][(PhysicsStep /\ ~g_process.pipes_burst) =>
          g_process'.status = Ladder(g_process'.inside_temp)]_vars

\* a tick has taken the temperature from above 5 degrees to CRITICAL
C30_Witness ==
    /\ g_process.status = STATUS_CRITICAL
    /\ g_process.inside_temp <= TEMP_CRITICAL * TScale
    /\ g_process.inside_temp > TEMP_FROZEN * TScale
    /\ nticks >= 1
    /\ tpc = "ctl"

\* C31: the severity of the status never decreases.  With the statuses in
\* the order OK < WARNING < CRITICAL < FROZEN < BURST, no step takes status
\* to a less severe value.
C31_SeverityNeverDecreases ==
    [][g_process'.status >= g_process.status]_vars

\* C32: after a controller crash the valve fails closed.  valve_actual
\* depends on valve_cmd, valve_actual and controller_running alone, so it
\* reaches 0 within finitely many ticks only if every physics tick run with
\* the controller dead, the pipes whole and the valve still open moves the
\* valve toward 0.
C32_ValveClosesAfterCrash ==
    [][( /\ PhysicsStep
         /\ ~g_process.controller_running
         /\ ~g_process.pipes_burst
         /\ g_process.valve_cmd = 0
         /\ g_process.valve_actual > 0 ) =>
       g_process'.valve_actual < g_process.valve_actual]_vars

\* C33: time_without_control counts the physics ticks since the controller
\* died.  From the moment controller_running is false, and while the pipes
\* are not burst, a physics tick adds one to it and no other step, a
\* connection opening or closing included, changes it.
C33_TimeWithoutControlCountsTicks ==
    [][(~g_process.controller_running /\ ~g_process'.pipes_burst) =>
          g_process'.time_without_control =
              g_process.time_without_control + (IF PhysicsStep THEN 1 ELSE 0)]_vars

\* the fields of ProcessState no register write may reach
ReadOnlyFields(s) ==
    <<s.inside_temp, s.outside_temp, s.status, s.valve_actual, s.supply_temp,
      s.runtime, s.heater_power, s.controller_running, s.time_without_control,
      s.pipes_burst>>

\* C34: only the writable registers reach ProcessState.  A handler's
\* process_from_registers changes nothing but valve_cmd, setpoint and mode,
\* whatever the register table holds.
C34_OnlyWritableRegistersReachState ==
    [][\A h \in DOMAIN hpc :
          FromRegistersStep(h) =>
              ReadOnlyFields(g_process') = ReadOnlyFields(g_process)]_vars

\* a handler has finished a request that wrote BURST into the status
\* register: the table holds it and the status of the process is still OK
C34_Witness ==
    \E h \in DOMAIN hpc :
        /\ hpc[h] = "recv"
        /\ hreq[h] # NoFrame
        /\ hreq[h].fc = FC_WRITE
        /\ hreq[h].addr = 4
        /\ hreply[h].kind = "ok"
        /\ tab_registers[5] = STATUS_BURST
        /\ tab_registers[6] = 30
        /\ g_process.status = STATUS_OK
        /\ g_process.valve_actual # 30

\* C35: a packet the gateway has forwarded to the PLC, or answered, has at
\* least 12 bytes, protocol id 0 and a declared length that is the number of
\* bytes received less 6; any other packet is neither forwarded nor answered.
C35_ForwardsOnlyValidatedPackets ==
    (gateway.forwarded \/ gateway.replied) =>
        /\ gateway.received >= 12
        /\ gateway.buffer.data[2] = 0 /\ gateway.buffer.data[3] = 0
        /\ gateway.buffer.data[4] * 256 + gateway.buffer.data[5] + 6 = gateway.received

C35_Witness ==
    /\ gateway.pc = "loop"
    /\ gateway.npackets = 2
    /\ gateway.received = 262
    /\ gateway.forwarded /\ gateway.replied

\* C36: serving a request that reads registers leaves valve_cmd, setpoint and
\* mode as they were, whatever the tick thread has done in between.
C36_ReadRequestLeavesStateAlone ==
    [][\A h \in Handlers :
         (FromRegistersStep(h) /\ hreq[h] # NoFrame /\ hreq[h].fc = FC_READ) =>
             /\ g_process'.valve_cmd = g_process.valve_cmd
             /\ g_process'.setpoint = g_process.setpoint
             /\ g_process'.mode = g_process.mode]_vars

\* the handlers that have been started and have not yet given up their
\* place in g_client_count
CountedHandlers ==
    {h \in DOMAIN hpc : hpc[h] \notin {"none", "done", "crash2_lock", "crash2_cs"}}

\* C37: g_client_count is never negative and, whenever main is not in the
\* middle of counting a connection, it is the number of accepted connections
\* whose handler has not finished, whichever way a handler has ended.
C37_CountIsLiveHandlers ==
    /\ g_client_count >= 0
    /\ mpc \in {"accept_loop", "accept", "join", "cleanup", "wait", "exit"} =>
           g_client_count = Cardinality(CountedHandlers)

\* the step in which main frees the register mapping and destroys the state
\* mutex
FreeStep == mpc = "wait" /\ mpc' = "exit" /\ g_mb_mapping = "allocated"

\* C38: main frees the register mapping and destroys the state mutex only
\* when no handler thread is running any more.
C38_NoFreeUnderRunningHandler ==
    [][FreeStep => ActiveHandlers = {}]_vars

\* C39: in every reachable state pipes_burst is true exactly when status is
\* BURST.
C39_BurstFlagIffBurstStatus ==
    g_process.pipes_burst <=> g_process.status = STATUS_BURST

\* a tick has taken the temperature from above -2 degrees to the burst
C39_Witness ==
    /\ g_process.pipes_burst
    /\ g_process.status = STATUS_BURST
    /\ g_process.inside_temp <= TEMP_BURST * TScale
    /\ g_process.runtime >= 1
    /\ nticks = 1
    /\ tpc = "ctl"

====
